---- MODULE Spec2Model ----
(***************************************************************************)
(* Model of binance-trading-bot:                                           *)
(*   - the RSI oscillator signals isBuySignal / isSellSignal               *)
(*     (indicators/oscillators/rsi), which delegate the RSI series to the  *)
(*     technicalindicators package;                                        *)
(*   - the neural-network feature assembly of genetic/neuralNetwork.ts;    *)
(*   - the trading loop of index.ts: candle history, spot and futures      *)
(*     evaluations, protective orders and their cancellation. Each         *)
(*     callback is one step; a request and its answer are separate steps.  *)
(* Prices are integers in tenths of a quote unit; RSI values are integers  *)
(* in hundredths of an RSI point (the package rounds with toFixed(2)).     *)
(***************************************************************************)
EXTENDS Integers, Sequences, FiniteSets, TLC

VARIABLES candles, config, extra, ret

\* the trading bot (index.ts): its module-level state, the exchange it talks
\* to, its evaluations in flight and a record of the requests it has sent
VARIABLES BINANCE_MODE, historyCandles, openOrders, loaded, exchange, tasks,
          ordersSent, cancelsSent, placed, seen

botVars ==
  <<BINANCE_MODE, historyCandles, openOrders, loaded, exchange, tasks,
    ordersSent, cancelsSent, placed, seen>>

vars == <<candles, config, extra, ret, botVars>>

(* ------------------------------ bounds --------------------------------- *)

\* longest candle series fed to the RSI signals
MaxCandles == 17
\* number of trailing candles that may differ from the flat warm-up prefix
MaxTail == 3
\* number of indicator_inputs keys a configuration switches on
MaxEnabled == 1
\* closed candles streamed to the bot in one run
MaxFinal == 2
\* MAX_CANDLES_HISTORY of the bot's configuration
MAX_CANDLES_HISTORY == 2
\* longest (flat) candle series handed to the neural-network entry points
MaxFlat == 16

\* close prices (tenths) a streamed candle can take
Closes == {0, 7, 13, 21}

\* spec.md section 8 end-to-end scenario, closes in tenths
ScenarioCloses ==
  <<440, 443, 441, 436, 440, 443, 450, 451, 452, 455, 451, 456, 461, 468, 472>>

(* --------------------------- JavaScript values ------------------------- *)

Undefined == [t |-> "undefined"]
Null == [t |-> "null"]
TypeError == [t |-> "TypeError"]
Num(n) == [t |-> "number", v |-> n]
Bool(b) == [t |-> "boolean", v |-> b]
Arr(s) == [t |-> "array", v |-> s]
Str(s) == [t |-> "string", v |-> s]

IsNum(x) == x.t = "number"

\* a < b and a > b of JavaScript on number | undefined: any comparison with
\* undefined (NaN after ToNumber) is false
jsLT(a, b) == IsNum(a) /\ IsNum(b) /\ a.v < b.v
jsGT(a, b) == IsNum(a) /\ IsNum(b) /\ a.v > b.v

\* arr[i] with a 0-based index: undefined outside the array
jsAt(arr, i) == IF i >= 0 /\ i < Len(arr) THEN arr[i + 1] ELSE Undefined

Min(a, b) == IF a < b THEN a ELSE b
Max(a, b) == IF a > b THEN a ELSE b

\* arr.slice(-n): a new array with the last n elements (all of them for
\* n = 0, since -0 is the index 0)
sliceLast(arr, n) ==
  IF n = 0 THEN arr
  ELSE SubSeq(arr, Len(arr) - Min(n, Len(arr)) + 1, Len(arr))

\* the receiver of arr.map(f) / arr.slice(-n) after the call: both build a new
\* array and leave the receiver alone
AfterMap(arr) == arr
AfterSplice(arr, n) == SubSeq(arr, 1, Len(arr) - Min(n, Len(arr)))
AfterSlice(arr, n) == arr

(* ------------------------------ candles -------------------------------- *)

\* a ChartCandle closing at c
Candle(c) == [open |-> c, high |-> c + 2, low |-> c, close |-> c, volume |-> 1]

closeOf(cs) == [i \in 1..Len(cs) |-> cs[i].close]

\* index of the first candle whose close differs from its predecessor's
\* (Len + 1 for a flat series)
RECURSIVE FirstChange(_, _)
FirstChange(cs, i) ==
  IF i > Len(cs) THEN Len(cs) + 1
  ELSE IF cs[i].close # cs[i - 1].close THEN i
  ELSE FirstChange(cs, i + 1)

\* number of candles from the first change of close to the end
TailLen(cs) == Len(cs) + 1 - FirstChange(cs, 2)

(* ------------------- RSI of the technicalindicators package ------------ *)

RSI_PERIOD == 14
RSI_OVERBOUGHT == 75
RSI_OVERSOLD == 35

RECURSIVE Pow(_, _)
Pow(b, e) == IF e = 0 THEN 1 ELSE b * Pow(b, e - 1)

\* the gain (up) or loss (not up) of values[i] over values[i-1], clipped at 0
Move(values, i, up) ==
  LET d == values[i] - values[i - 1]
  IN IF up THEN Max(d, 0) ELSE Max(0 - d, 0)

RECURSIVE SumMoves(_, _, _, _)
SumMoves(values, from, to, up) ==
  IF from > to THEN 0
  ELSE Move(values, from, up) + SumMoves(values, from + 1, to, up)

\* AverageGain / AverageLoss at input i (1-based, i > period), as the
\* numerator of a fraction over period^(i - period): the first average is the
\* plain mean of the first `period` moves, each later one is Wilder's
\* (avg * (period - 1) + move) / period
RECURSIVE AvgNum(_, _, _, _)
AvgNum(values, period, i, up) ==
  IF i = period + 1 THEN SumMoves(values, 2, period + 1, up)
  ELSE LET m == Move(values, i, up)
       IN (period - 1) * AvgNum(values, period, i - 1, up)
          + (IF m = 0 THEN 0 ELSE m * Pow(period, i - period - 1))

\* parseFloat((100 * n / d).toFixed(2)) in hundredths, by long division
Hundredths(n, d) ==
  LET q1 == (100 * n) \div d
      r1 == (100 * n) % d
      q2 == (100 * r1) \div d
      r2 == (100 * r1) % d
  IN 100 * q1 + q2 + (IF 2 * r2 >= d THEN 1 ELSE 0)

\* the RSI at input i: 100 when the average loss is 0, 0 when the average
\* gain is 0, else 100 - 100 / (1 + avgGain / avgLoss) rounded to 2 decimals
RSIAt(values, period, i) ==
  LET g == AvgNum(values, period, i, TRUE)
      l == AvgNum(values, period, i, FALSE)
  IN IF l = 0 THEN 10000
     ELSE IF g = 0 THEN 0
     ELSE Hundredths(g, g + l)

\* RSI.calculate({values, period}): one value per input from the
\* (period + 1)-th on
RSI_calculate(values, period) ==
  [k \in 1..Max(Len(values) - period, 0) |-> Num(RSIAt(values, period, period + k))]

(* ------------------------ oscillators/rsi signals ---------------------- *)

\* as isBuySignal, with both comparisons non-strict
isBuySignalLoose(cs) ==
  IF Len(cs) >= RSI_PERIOD
  THEN LET values == RSI_calculate(closeOf(cs), RSI_PERIOD)
           last == jsAt(values, Len(values) - 2)
           current == jsAt(values, Len(values) - 1)
       IN Bool(~jsGT(last, Num(RSI_OVERSOLD * 100))
               /\ ~jsLT(current, Num(RSI_OVERSOLD * 100)))
  ELSE Undefined
\* as isBuySignal, with a missing RSI point read as 0 (values[i] || 0)
isBuySignalZeroFill(cs) ==
  IF Len(cs) >= RSI_PERIOD
  THEN LET values == RSI_calculate(closeOf(cs), RSI_PERIOD)
           last == jsAt(values, Len(values) - 2)
           current == jsAt(values, Len(values) - 1)
           z(x) == IF IsNum(x) THEN x ELSE Num(0)
       IN Bool(jsLT(z(last), Num(RSI_OVERSOLD * 100))
               /\ jsGT(z(current), Num(RSI_OVERSOLD * 100)))
  ELSE Undefined
\* true if the RSI crosses up the oversold zone line
isBuySignal(cs) ==
  IF Len(cs) >= RSI_PERIOD
  THEN LET values == RSI_calculate(closeOf(cs), RSI_PERIOD)
           last == jsAt(values, Len(values) - 2)
           current == jsAt(values, Len(values) - 1)
       IN Bool(jsLT(last, Num(RSI_OVERSOLD * 100))
               /\ jsGT(current, Num(RSI_OVERSOLD * 100)))
  ELSE Undefined

\* true if the RSI crosses down the overbought zone line
isSellSignal(cs) ==
  IF Len(cs) >= RSI_PERIOD
  THEN LET values == RSI_calculate(closeOf(cs), RSI_PERIOD)
           last == jsAt(values, Len(values) - 2)
           current == jsAt(values, Len(values) - 1)
       IN Bool(jsGT(last, Num(RSI_OVERBOUGHT * 100))
               /\ jsLT(current, Num(RSI_OVERBOUGHT * 100)))
  ELSE Undefined

(* ----------------------- genetic/neuralNetwork.ts ---------------------- *)

\* the keys of NEURAL_NETWORK_INPUTS in the order they are declared
ToggleOrder ==
  <<"EMA21", "EMA50", "EMA100", "ADX", "AO", "CCI", "MFI", "ROC", "RSI",
    "WILLIAM_R", "KIJUN", "VWAP", "VOL_OSC", "VOL">>

ToggleNames == {ToggleOrder[i] : i \in 1..Len(ToggleOrder)}

\* NEURAL_NETWORK_INPUTS: each toggle read from the indicator_inputs key it
\* names in the source (KIJUN is read from the key EMA21)
NEURAL_NETWORK_INPUTS(cfg) ==
  [k \in ToggleNames |->
     IF k = "KIJUN" THEN "EMA21" \in cfg.indicator_inputs
     ELSE k \in cfg.indicator_inputs]

\* indicators/volumeOscillator: 100 * (SMA(vol, short) - SMA(vol, long)) /
\* SMA(vol, long), absent until the long average has longLength volumes
volumeOscillatorFirstOutputAt(longLength) == longLength

\* number of inputs an indicator needs before its calculate() returns a first
\* value (technicalindicators; VOL_OSC is indicators/volumeOscillator with
\* longLength 10)
FirstOutputAt ==
  [k \in ToggleNames \ {"VOL"} |->
     CASE k = "EMA21" -> 21
       [] k = "EMA50" -> 50
       [] k = "EMA100" -> 100
       [] k = "ADX" -> 28
       [] k = "AO" -> 25
       [] k = "CCI" -> 20
       [] k = "MFI" -> 15
       [] k = "ROC" -> 10
       [] k = "RSI" -> 15
       [] k = "WILLIAM_R" -> 14
       [] k = "KIJUN" -> 52
       [] k = "VWAP" -> 1
       [] k = "VOL_OSC" -> volumeOscillatorFirstOutputAt(10)]

\* the number of trailing candles getInputsFromIndicators hands to an
\* indicator (candles.map(...).slice(-n))
WindowOf ==
  [k \in ToggleNames \ {"VOL", "VWAP"} |->
     CASE k = "EMA21" -> 21
       [] k = "EMA50" -> 50
       [] k = "EMA100" -> 100
       [] k = "ADX" -> 15
       [] k = "AO" -> 26
       [] k = "CCI" -> 21
       [] k = "MFI" -> 15
       [] k = "ROC" -> 10
       [] k = "RSI" -> 15
       [] k = "WILLIAM_R" -> 15
       [] k = "KIJUN" -> 53
       [] k = "VOL_OSC" -> 11]

\* a value computed by an indicator of the package (its magnitude is not
\* modelled)
LibNum(k) == [t |-> "number", lib |-> k]

\* X.calculate(<the last WindowOf[k] candles>).slice(-1)[0]
LastOf(k, cs) ==
  IF Len(sliceLast(cs, WindowOf[k])) >= FirstOutputAt[k]
  THEN LibNum(k) ELSE Undefined

\* x.prop: a TypeError when x is undefined
Prop(x) == IF x = Undefined THEN TypeError ELSE x

\* wallet.balances.find((bal) => bal.symbol === pair)
RECURSIVE FindBalance(_, _, _)
FindBalance(balances, p, i) ==
  IF i > Len(balances) THEN Undefined
  ELSE IF balances[i].symbol = p THEN balances[i]
  ELSE FindBalance(balances, p, i + 1)

\* futuresWallet.positions.find((pos) => pos.pair === pair)
RECURSIVE FindPosition(_, _, _)
FindPosition(positions, p, i) ==
  IF i > Len(positions) THEN Undefined
  ELSE IF positions[i].pair = p THEN positions[i]
  ELSE FindPosition(positions, p, i + 1)

\* "Currently holding a trade/position?": a boolean, or a TypeError when the
\* wallet has no entry for the pair; the futures wallet is read last and wins
holdingTrade(p, ex) ==
  LET balance == IF ex.wallet = Null THEN Null
                 ELSE FindBalance(ex.wallet.balances, p, 1)
      position == IF ex.futuresWallet = Null THEN Null
                  ELSE FindPosition(ex.futuresWallet.positions, p, 1)
  IN IF balance = Undefined \/ position = Undefined THEN TypeError
     ELSE IF position # Null THEN Bool(position.size # 0)
     ELSE IF balance # Null THEN Bool(balance.quantity > 0)
     ELSE Bool(FALSE)

\* the value of each feature before the null filter
Feature(k, p, cs, ex, cfg) ==
  LET on == NEURAL_NETWORK_INPUTS(cfg)
      n == Len(cs)
  IN CASE k = "ADX" -> IF on[k] THEN Prop(LastOf(k, cs)) ELSE Null
       [] k = "KIJUN" -> IF on[k] THEN Prop(LastOf(k, cs)) ELSE Null
       [] k = "RSI" ->
            IF on[k]
            THEN LET values == RSI_calculate(sliceLast(closeOf(cs), 15), 14)
                 IN jsAt(values, Len(values) - 1)
            ELSE Null
       [] k = "VWAP" ->
            IF on[k] THEN (IF n = 0 THEN TypeError ELSE LibNum(k)) ELSE Null
       [] k = "VOL" ->
            IF on[k] THEN (IF n = 0 THEN TypeError ELSE Num(cs[n].volume)) ELSE Null
       [] k = "holdingTrade" ->
            LET h == holdingTrade(p, ex)
            IN IF h = TypeError THEN h ELSE Num(IF h.v THEN 1 ELSE 0)
       [] OTHER -> IF on[k] THEN LastOf(k, cs) ELSE Null

\* the order of the array literal `inputs`
InputsOrder ==
  <<"EMA21", "EMA50", "EMA100", "ADX", "AO", "CCI", "MFI", "ROC", "RSI",
    "WILLIAM_R", "VWAP", "KIJUN", "VOL_OSC", "VOL", "holdingTrade">>

\* arr.filter((i) => i !== null) on the tagged features
RECURSIVE FilterNotNull(_)
FilterNotNull(arr) ==
  IF arr = <<>> THEN <<>>
  ELSE IF Head(arr).val = Null THEN FilterNotNull(Tail(arr))
  ELSE <<Head(arr)>> \o FilterNotNull(Tail(arr))

\* getInputsFromIndicators: the features that are not null, each tagged with
\* the variable it comes from, or a TypeError when computing one throws
getInputsFromIndicators(p, cs, ex, cfg) ==
  LET all == [i \in 1..Len(InputsOrder) |->
                [feat |-> InputsOrder[i],
                 val |-> Feature(InputsOrder[i], p, cs, ex, cfg)]]
  IN IF \E i \in 1..Len(all) : all[i].val = TypeError THEN TypeError
     ELSE Arr(FilterNotNull(all))

\* getCandleSource
getCandleSource(cs, cfg) ==
  [i \in 1..Len(cs) |->
     CASE cfg.source = "open" -> cs[i].open
       [] cfg.source = "close" -> cs[i].close
       [] cfg.source = "high" -> cs[i].high
       [] cfg.source = "low" -> cs[i].low
       [] cfg.source = "hl2" -> (cs[i].high + cs[i].low) \div 2
       [] OTHER -> cs[i].close]

\* getInputsFromCandles
getInputsFromCandles(p, cs, length, ex, cfg) ==
  LET h == holdingTrade(p, ex)
      src == sliceLast(getCandleSource(cs, cfg), length)
  IN IF h = TypeError THEN TypeError
     ELSE Arr([i \in 1..Len(src) |-> [feat |-> "candle", val |-> Num(src[i])]]
              \o <<[feat |-> "holdingTrade", val |-> Num(IF h.v THEN 1 ELSE 0)]>>)

\* activations (tenths) the output nodes of brain.predict can take
Activations == {5, 8}

\* getOutputs, for the activations `actions` that brain.predict returns
getOutputs(p, cs, actions, ex, cfg) ==
  LET inputs == IF cfg.inputs_mode = "candles"
                THEN getInputsFromCandles(p, cs, 20, ex, cfg)
                ELSE getInputsFromIndicators(p, cs, ex, cfg)
      max == Max(actions[1], Max(actions[2], actions[3]))
  IN IF inputs = TypeError THEN TypeError
     ELSE IF max = actions[1] /\ actions[1] > 6 THEN Str("BUY")
     ELSE IF max = actions[2] /\ actions[2] > 6 THEN Str("SELL")
     ELSE IF max = actions[3] /\ actions[3] > 6 THEN Str("CLOSE")
     ELSE Undefined

\* the candle array after getInputsFromIndicators: every series is read with
\* candles.map(...), the volume oscillator with candles.slice(-11)
CandlesAfterIndicators(cs, cfg) ==
  IF NEURAL_NETWORK_INPUTS(cfg)["VOL_OSC"]
  THEN AfterSlice(AfterMap(cs), WindowOf["VOL_OSC"])
  ELSE AfterMap(cs)

(* ------------------------------ index.ts -------------------------------- *)

\* the pairs of tradeConfigs (asset + base)
Pairs == {"BTCUSDT", "ETHUSDT"}

\* tradeConfig.profitTarget is set for the first pair only
profitTarget == [p \in Pairs |-> p = "BTCUSDT"]

MIN_FREE_BALANCE_FOR_SPOT_TRADING == 10
MIN_FREE_BALANCE_FOR_FUTURE_TRADING == 10

\* free balances of the base asset the account reports
Balances == {9, 10}

\* closes (tenths) of the candles the exchange returns and streams
LoadedClose == 7
StreamedCloses == {13}

\* what futuresPositionRisk reports for a pair that is flat, long or short
PositionRisk(side) ==
  CASE side = "long" -> [positionAmt |-> 1, entryPrice |-> 10, liquidationPrice |-> 5]
    [] side = "short" -> [positionAmt |-> 0 - 1, entryPrice |-> 10, liquidationPrice |-> 15]
    [] OTHER -> [positionAmt |-> 0, entryPrice |-> 0, liquidationPrice |-> 0]

\* the position of a pair after the exchange fills a market order
Fill(side, order) ==
  CASE order = "BUY" -> (IF side = "short" THEN "flat" ELSE "long")
    [] order = "SELL" -> (IF side = "long" THEN "flat" ELSE "short")
    [] OTHER -> side

\* results of SMA.isBuySignal / SMA.isSellSignal (indicators/trend/sma)
SMAResults == {Bool(TRUE), Bool(FALSE)}

\* a || b
jsOr(a, b) == IF a = Bool(TRUE) THEN a ELSE b

\* isBuySignal / isSellSignal of the bot: RSI signal || SMA signal
botIsBuySignal(cs, sma) == jsOr(isBuySignal(cs), sma)
botIsSellSignal(cs, sma) == jsOr(isSellSignal(cs), sma)

\* loadCandles: the last MAX_CANDLES_HISTORY candles of the response
loadCandles(response) == sliceLast(response, MAX_CANDLES_HISTORY)

\* the candle callback on a closed candle: historyCandles[pair] after
\* candles.push(...), and the local `candles` after candles = candles.slice(1)
pushCandle(history, c) == Append(history, c)
evaluatedCandles(history, c) == Tail(Append(history, c))

\* tradeWithSpot: the market order it submits, if any
spotOrderAlways(trades, availableBalance, buy, sell) ==
  IF sell = Bool(TRUE) THEN "SELL"
  ELSE IF buy = Bool(TRUE) THEN "BUY"
  ELSE "none"
spotOrder(trades, availableBalance, buy, sell) ==
  IF trades > 0
  THEN (IF sell = Bool(TRUE) THEN "SELL" ELSE "none")
  ELSE IF availableBalance >= MIN_FREE_BALANCE_FOR_SPOT_TRADING
  THEN (IF buy = Bool(TRUE) THEN "BUY" ELSE "none")
  ELSE "none"

\* checkCurrentPosition: the side of the closing market order, if any
checkCurrentPosition(pos, buy, sell) ==
  LET isBuyPosition == pos.entryPrice > pos.liquidationPrice
  IN IF ~isBuyPosition /\ buy = Bool(TRUE) THEN "BUY"
     ELSE IF isBuyPosition /\ sell = Bool(TRUE) THEN "SELL"
     ELSE "none"

\* lookForPosition: the side of the entry market order, if any
lookForPosition(availableBalance, buy, sell) ==
  IF availableBalance >= MIN_FREE_BALANCE_FOR_FUTURE_TRADING
  THEN (IF buy = Bool(TRUE) THEN "BUY"
        ELSE IF sell = Bool(TRUE) THEN "SELL"
        ELSE "none")
  ELSE "none"

\* checkCurrentPosition(position).then(lookForPosition): whether
\* lookForPosition runs once the closing order has been answered
reopensAlways(ok) == TRUE
reopens(ok) == ok

\* the protective orders submitted once the entry order has been answered
\* (.then of the entry order): take profit when a profit target is set, and
\* the stop loss
protectiveAlways(ok, takeProfit) == IF takeProfit THEN {"TP", "SL"} ELSE {"SL"}
protective(ok, takeProfit) ==
  IF ok THEN (IF takeProfit THEN {"TP", "SL"} ELSE {"SL"}) ELSE {}

\* tradeWithSpot: the exit order submitted once the BUY order has been
\* answered: an OCO when a take-profit price is set, else a limit order
spotProtective(ok, takeProfit) ==
  IF ok THEN (IF takeProfit THEN {"OCO"} ELSE {"LIMIT"}) ELSE {}

\* closeOpenOrders: the order ids it asks the exchange to cancel, and
\* openOrders after it
cancelled(orders, symbol) == {orders[symbol][i] : i \in 1..Len(orders[symbol])}
closeOpenOrdersKeep(orders, symbol) == orders
closeOpenOrdersAll(orders, symbol) == [q \in DOMAIN orders |-> <<>>]
closeOpenOrders(orders, symbol) == [orders EXCEPT ![symbol] = <<>>]

\* the bot before prepare() and run()
BotStopped ==
  /\ BINANCE_MODE = "spot"
  /\ historyCandles = [p \in Pairs |-> <<>>]
  /\ openOrders = [p \in Pairs |-> <<>>]
  /\ loaded = [p \in Pairs |-> FALSE]
  /\ exchange = [p \in Pairs |-> "flat"]
  /\ tasks = <<>>
  /\ ordersSent = {}
  /\ cancelsSent = {}
  /\ placed = {}
  /\ seen = [final |-> 0, orderId |-> 0]

(* ------------------------------ state machine -------------------------- *)

pair == "BTCUSDT"

NoConfig == [inputs_mode |-> "indicators", source |-> "close", indicator_inputs |-> {}]
NoExtra == [wallet |-> Null, futuresWallet |-> Null]

\* the `length` argument of a direct call of getInputsFromCandles
Lengths == {0, 2, 20}

\* the keys of BotConfig.genetic.neural_network.indicator_inputs
ConfigKeys == ToggleNames

\* BotConfig.genetic.neural_network.candle_inputs.source
Sources == {"open", "close", "high", "low", "hl2", "ohlc4"}

\* the configurations: indicator mode with at most MaxEnabled keys switched
\* on, or candle mode with any source
Configs ==
  {[inputs_mode |-> "indicators", source |-> "close", indicator_inputs |-> e] :
     e \in {x \in SUBSET ConfigKeys : Cardinality(x) <= MaxEnabled}}
  \cup
  {[inputs_mode |-> "candles", source |-> s, indicator_inputs |-> {}] :
     s \in Sources}

\* the `extra` argument: no wallet, a spot wallet holding the pair, a spot
\* wallet without a balance for the pair, a futures wallet with a flat position
Extras ==
  { NoExtra,
    [wallet |-> [balances |-> <<[symbol |-> pair, quantity |-> 1]>>],
     futuresWallet |-> Null],
    [wallet |-> [balances |-> <<>>], futuresWallet |-> Null],
    [wallet |-> Null,
     futuresWallet |-> [positions |-> <<[pair |-> pair, size |-> 0]>>]] }

\* close of the flat series handed to the neural network
FlatCloses == {7}

FlatSeries ==
  {[i \in 1..n |-> Candle(c)] : n \in 0..MaxFlat, c \in FlatCloses}

Init ==
  /\ candles = <<>>
  /\ config = NoConfig
  /\ extra = NoExtra
  /\ ret = [op |-> "none", val |-> Undefined]
  /\ BotStopped

\* the trading loop appends a closed candle to the series
AppendCandle ==
  \E c \in Closes :
    /\ Len(candles) < MaxCandles
    /\ TailLen(Append(candles, Candle(c))) <= MaxTail
    /\ candles' = Append(candles, Candle(c))
    /\ ret' = [op |-> "none", val |-> Undefined]
    /\ UNCHANGED <<config, extra, botVars>>

\* the trading loop appends the next close of the end-to-end scenario
AppendScenarioCandle ==
  /\ Len(candles) < Len(ScenarioCloses)
  /\ closeOf(candles) = SubSeq(ScenarioCloses, 1, Len(candles))
  /\ candles' = Append(candles, Candle(ScenarioCloses[Len(candles) + 1]))
  /\ ret' = [op |-> "none", val |-> Undefined]
  /\ UNCHANGED <<config, extra, botVars>>

CallIsBuySignal ==
  /\ ret' = [op |-> "isBuySignal", val |-> isBuySignal(candles)]
  /\ candles' = AfterMap(candles)
  /\ UNCHANGED <<config, extra, botVars>>

CallIsSellSignal ==
  /\ ret' = [op |-> "isSellSignal", val |-> isSellSignal(candles)]
  /\ candles' = AfterMap(candles)
  /\ UNCHANGED <<config, extra, botVars>>

CallGetInputsFromIndicators ==
  /\ ret' = [op |-> "getInputsFromIndicators",
             val |-> getInputsFromIndicators(pair, candles, extra, config)]
  /\ candles' = CandlesAfterIndicators(candles, config)
  /\ UNCHANGED <<config, extra, botVars>>

CallGetInputsFromCandles ==
  \E length \in Lengths :
    /\ ret' = [op |-> "getInputsFromCandles",
               val |-> getInputsFromCandles(pair, candles, length, extra, config)]
    /\ candles' = AfterMap(candles)
    /\ UNCHANGED <<config, extra, botVars>>

CallGetOutputs ==
  \E actions \in [1..3 -> Activations] :
    /\ ret' = [op |-> "getOutputs",
               val |-> getOutputs(pair, candles, actions, extra, config)]
    /\ candles' = IF config.inputs_mode = "candles" THEN AfterMap(candles)
                  ELSE CandlesAfterIndicators(candles, config)
    /\ UNCHANGED <<config, extra, botVars>>

Next ==
  \/ AppendCandle
  \/ AppendScenarioCandle
  \/ CallIsBuySignal
  \/ CallIsSellSignal

Spec == Init /\ [][Next]_vars

\* the neural-network entry points, called with any bounded configuration and
\* wallet on a flat candle series of any length up to MaxFlat
InitNN ==
  /\ candles \in FlatSeries
  /\ config \in Configs
  /\ extra \in Extras
  /\ ret = [op |-> "none", val |-> Undefined]
  /\ BotStopped

NextNN ==
  \/ CallIsBuySignal
  \/ CallIsSellSignal
  \/ CallGetInputsFromIndicators
  \/ CallGetInputsFromCandles
  \/ CallGetOutputs

SpecNN == InitNN /\ [][NextNN]_vars

(* --------------------------- the bot's run ----------------------------- *)

\* lengths of the candle list the exchange answers loadCandles with
ResponseLengths == {0, MAX_CANDLES_HISTORY + 1}

\* the futures position a pair can hold when the bot starts
InitialSides == {"flat", "long"}

Opposite(side) == IF side = "BUY" THEN "SELL" ELSE "BUY"

\* prepare(): every pair starts with no candle and no tracked order; the
\* account may already hold a futures position on the first pair
InitBot ==
  /\ candles = <<>>
  /\ config = NoConfig
  /\ extra = NoExtra
  /\ ret = [op |-> "none", val |-> Undefined]
  /\ BINANCE_MODE \in {"spot", "futures"}
  /\ historyCandles = [p \in Pairs |-> <<>>]
  /\ openOrders = [p \in Pairs |-> <<>>]
  /\ loaded = [p \in Pairs |-> FALSE]
  /\ exchange \in [Pairs -> InitialSides]
  /\ exchange["ETHUSDT"] = "flat"
  /\ (BINANCE_MODE = "spot" => exchange["BTCUSDT"] = "flat")
  /\ tasks = <<>>
  /\ ordersSent = {}
  /\ cancelsSent = {}
  /\ placed = {}
  /\ seen = [final |-> 0, orderId |-> 0]

\* run(): the candles of a pair are loaded; the stream is opened afterwards
LoadCandles(p) ==
  /\ ~loaded[p]
  /\ \E n \in ResponseLengths :
       historyCandles' =
         [historyCandles EXCEPT ![p] = loadCandles([i \in 1..n |-> Candle(LoadedClose)])]
  /\ loaded' = [loaded EXCEPT ![p] = TRUE]
  /\ ordersSent' = {}
  /\ cancelsSent' = {}
  /\ UNCHANGED <<candles, config, extra, ret, BINANCE_MODE, openOrders,
                 exchange, tasks, placed, seen>>

\* an evaluation started by tradeWithSpot / tradeWithFutures, waiting for the
\* account data it awaits first; it evaluates the signals afterwards
NewTask(p, cs) ==
  [pair |-> p, candles |-> cs, buy |-> Undefined, sell |-> Undefined,
   pc |-> "account",
   availableBalance |-> 0, snapshot |-> "flat", trades |-> 0,
   close |-> "none", entry |-> "none", side |-> "none", pending |-> {}]

\* an evaluation that has ended
Done(p) == [NewTask(p, <<>>) EXCEPT !.pc = "done"]

\* what an evaluation still reads at each of its positions: the candles
\* until the account data has answered, the signals and the balance until
\* lookForPosition has run, then the order it waits for
Live(task) ==
  CASE task.pc = "account" -> task
    [] task.pc = "close" -> [task EXCEPT !.candles = <<>>]
    [] task.pc = "entry" -> [Done(task.pair) EXCEPT !.pc = "entry", !.side = task.side]
    [] task.pc = "protect" ->
         [Done(task.pair) EXCEPT !.pc = "protect", !.pending = task.pending]
    [] OTHER -> Done(task.pair)

\* the stream callback on a candle that is not closed
OpenCandleEvent(p) ==
  /\ loaded[p]
  /\ ordersSent' = {}
  /\ cancelsSent' = {}
  /\ UNCHANGED <<candles, config, extra, ret, BINANCE_MODE, historyCandles,
                 openOrders, loaded, exchange, tasks, placed, seen>>

\* the stream callback on a closed candle
FinalCandleEvent(p) ==
  /\ loaded[p]
  /\ seen.final < MaxFinal
  /\ \E c \in StreamedCloses :
       /\ historyCandles' =
            [historyCandles EXCEPT ![p] = pushCandle(@, Candle(c))]
       /\ tasks' = Append(tasks,
            NewTask(p, evaluatedCandles(historyCandles[p], Candle(c))))
  /\ seen' = [seen EXCEPT !.final = @ + 1]
  /\ ordersSent' = {}
  /\ cancelsSent' = {}
  /\ UNCHANGED <<candles, config, extra, ret, BINANCE_MODE, openOrders,
                 loaded, exchange, placed>>

\* a request for account data is rejected: the evaluation ends
AccountFailure(t) ==
  /\ tasks[t].pc = "account"
  /\ tasks' = [tasks EXCEPT ![t] = Done(@.pair)]
  /\ ordersSent' = {}
  /\ cancelsSent' = {}
  /\ UNCHANGED <<candles, config, extra, ret, BINANCE_MODE, historyCandles,
                 openOrders, loaded, exchange, placed, seen>>

\* an order request of evaluation t, with what the evaluation had read and
\* been answered when it sent the request
Order(t, now, role, side) ==
  [task |-> t, pair |-> now.pair, role |-> role, side |-> side,
   buy |-> now.buy, sell |-> now.sell, trades |-> now.trades,
   availableBalance |-> now.availableBalance, snapshot |-> now.snapshot,
   close |-> now.close, entry |-> now.entry, from |-> tasks[t].pc]

\* the cancel requests closeOpenOrders(symbol) sends for evaluation t, which
\* read the position `snapshot` and has or has not just closed it
Cancels(t, symbol, afterClose, snapshot) ==
  {[pair |-> symbol, id |-> id, task |-> t, snapshot |-> snapshot,
    afterClose |-> afterClose] : id \in cancelled(openOrders, symbol)}

\* the placed orders, each with the number of cancel requests sent for it
CountCancels(ids) ==
  {IF r.id \in ids THEN [r EXCEPT !.cancels = @ + 1] ELSE r : r \in placed}

\* tradeWithSpot after accountInfo and myTrades have answered
SpotAccount(t) ==
  /\ BINANCE_MODE = "spot"
  /\ tasks[t].pc = "account"
  /\ \E availableBalance \in Balances, trades \in {0, 1},
        smaBuy \in SMAResults, smaSell \in SMAResults :
       LET buy == botIsBuySignal(tasks[t].candles, smaBuy)
           sell == botIsSellSignal(tasks[t].candles, smaSell)
           o == spotOrder(trades, availableBalance, buy, sell)
           now == [tasks[t] EXCEPT
                     !.buy = buy,
                     !.sell = sell,
                     !.availableBalance = availableBalance,
                     !.trades = trades,
                     !.side = o,
                     !.entry = IF o = "none" THEN "none" ELSE "pending",
                     !.pc = IF o = "none" THEN "done" ELSE "entry"]
       IN /\ ordersSent' = IF o = "none" THEN {} ELSE {Order(t, now, "market", o)}
          /\ tasks' = [tasks EXCEPT ![t] = Live(now)]
  /\ cancelsSent' = {}
  /\ UNCHANGED <<candles, config, extra, ret, BINANCE_MODE, historyCandles,
                 openOrders, loaded, exchange, placed, seen>>

\* tradeWithFutures after futuresAccountBalance and futuresPositionRisk have
\* answered: the branch on position.positionAmt
FuturesAccount(t) ==
  /\ BINANCE_MODE = "futures"
  /\ tasks[t].pc = "account"
  /\ \E availableBalance \in Balances,
        smaBuy \in SMAResults, smaSell \in SMAResults :
       LET p == tasks[t].pair
           buy == botIsBuySignal(tasks[t].candles, smaBuy)
           sell == botIsSellSignal(tasks[t].candles, smaSell)
           snapshot == exchange[p]
           pos == PositionRisk(snapshot)
           closing == IF pos.positionAmt > 0
                      THEN checkCurrentPosition(pos, buy, sell)
                      ELSE "none"
           opening == IF closing = "none"
                      THEN lookForPosition(availableBalance, buy, sell)
                      ELSE "none"
           closes == ~(pos.positionAmt > 0) /\ Len(openOrders[p]) > 0
           now == [tasks[t] EXCEPT
                     !.buy = buy,
                     !.sell = sell,
                     !.availableBalance = availableBalance,
                     !.snapshot = snapshot,
                     !.side = IF closing # "none" THEN closing ELSE opening,
                     !.close = IF closing # "none" THEN "pending" ELSE "none",
                     !.entry = IF opening # "none" THEN "pending" ELSE "none",
                     !.pc = IF closing # "none" THEN "close"
                            ELSE IF opening # "none" THEN "entry"
                            ELSE "done"]
       IN /\ openOrders' = IF closes THEN closeOpenOrders(openOrders, p)
                           ELSE openOrders
          /\ cancelsSent' = IF closes THEN Cancels(t, p, FALSE, snapshot) ELSE {}
          /\ placed' = IF closes THEN CountCancels(cancelled(openOrders, p))
                       ELSE placed
          /\ ordersSent' =
               IF closing # "none" THEN {Order(t, now, "close", closing)}
               ELSE IF opening # "none" THEN {Order(t, now, "entry", opening)}
               ELSE {}
          /\ tasks' = [tasks EXCEPT ![t] = Live(now)]
  /\ UNCHANGED <<candles, config, extra, ret, BINANCE_MODE, historyCandles,
                 loaded, exchange, seen>>

\* the closing order of checkCurrentPosition is answered: on success the
\* protective orders are cancelled and lookForPosition follows
CloseResponse(t, ok) ==
  /\ tasks[t].pc = "close"
  /\ LET p == tasks[t].pair
         opening == IF reopens(ok)
                    THEN lookForPosition(tasks[t].availableBalance,
                                         tasks[t].buy, tasks[t].sell)
                    ELSE "none"
         now == [tasks[t] EXCEPT
                   !.close = IF ok THEN "ok" ELSE "failed",
                   !.side = opening,
                   !.entry = IF opening # "none" THEN "pending" ELSE "none",
                   !.pc = IF opening # "none" THEN "entry" ELSE "done"]
     IN /\ exchange' = IF ok THEN [exchange EXCEPT ![p] = Fill(@, tasks[t].side)]
                       ELSE exchange
        /\ openOrders' = IF ok THEN closeOpenOrders(openOrders, p) ELSE openOrders
        /\ cancelsSent' = IF ok THEN Cancels(t, p, TRUE, tasks[t].snapshot) ELSE {}
        /\ placed' = IF ok THEN CountCancels(cancelled(openOrders, p)) ELSE placed
        /\ ordersSent' = IF opening # "none"
                         THEN {Order(t, now, "entry", opening)}
                         ELSE {}
        /\ tasks' = [tasks EXCEPT ![t] = Live(now)]
  /\ UNCHANGED <<candles, config, extra, ret, BINANCE_MODE, historyCandles,
                 loaded, seen>>

\* the market order of tradeWithSpot / lookForPosition is answered: on
\* success the protective orders are submitted
EntryResponse(t, ok) ==
  /\ tasks[t].pc = "entry"
  /\ LET p == tasks[t].pair
         roles == IF BINANCE_MODE = "futures"
                  THEN protective(ok, profitTarget[p])
                  ELSE IF tasks[t].side = "BUY"
                  THEN spotProtective(ok, profitTarget[p])
                  ELSE {}
         now == [tasks[t] EXCEPT
                   !.entry = IF ok THEN "ok" ELSE "failed",
                   !.pending = roles,
                   !.pc = IF roles # {} THEN "protect" ELSE "done"]
     IN /\ exchange' = IF ok /\ BINANCE_MODE = "futures"
                       THEN [exchange EXCEPT ![p] = Fill(@, tasks[t].side)]
                       ELSE exchange
        /\ ordersSent' =
             {Order(t, now, role, Opposite(tasks[t].side)) : role \in roles}
        /\ tasks' = [tasks EXCEPT ![t] = Live(now)]
  /\ cancelsSent' = {}
  /\ UNCHANGED <<candles, config, extra, ret, BINANCE_MODE, historyCandles,
                 openOrders, loaded, placed, seen>>

\* a protective order is answered: the id of a futures order the exchange
\* accepted is pushed onto openOrders[pair]
ProtectiveResponse(t, role, ok) ==
  /\ tasks[t].pc = "protect"
  /\ role \in tasks[t].pending
  /\ LET p == tasks[t].pair
         id == seen.orderId + 1
         tracked == ok /\ BINANCE_MODE = "futures"
     IN /\ openOrders' = IF tracked
                         THEN [openOrders EXCEPT ![p] = Append(@, id)]
                         ELSE openOrders
        /\ placed' = IF tracked
                     THEN placed \cup {[pair |-> p, id |-> id, cancels |-> 0]}
                     ELSE placed
        /\ seen' = IF tracked THEN [seen EXCEPT !.orderId = id] ELSE seen
        /\ tasks' = [tasks EXCEPT ![t] = Live(
             [@ EXCEPT !.pending = @ \ {role},
                       !.pc = IF tasks[t].pending = {role} THEN "done" ELSE "protect"])]
  /\ ordersSent' = {}
  /\ cancelsSent' = {}
  /\ UNCHANGED <<candles, config, extra, ret, BINANCE_MODE, historyCandles,
                 loaded, exchange>>

Roles == {"TP", "SL", "OCO", "LIMIT"}

NextBot ==
  \/ \E p \in Pairs : LoadCandles(p)
  \/ \E p \in Pairs : OpenCandleEvent(p)
  \/ \E p \in Pairs : FinalCandleEvent(p)
  \/ \E t \in 1..Len(tasks) : AccountFailure(t)
  \/ \E t \in 1..Len(tasks) : SpotAccount(t)
  \/ \E t \in 1..Len(tasks) : FuturesAccount(t)
  \/ \E t \in 1..Len(tasks), ok \in BOOLEAN : CloseResponse(t, ok)
  \/ \E t \in 1..Len(tasks), ok \in BOOLEAN : EntryResponse(t, ok)
  \/ \E t \in 1..Len(tasks), role \in Roles, ok \in BOOLEAN :
       ProtectiveResponse(t, role, ok)

SpecBot == InitBot /\ [][NextBot]_vars

(* ------------------------- claims on the RSI signals ------------------- *)

\* the RSI series of the current candles and its last two points
RSIValues == RSI_calculate(closeOf(candles), RSI_PERIOD)
PrevRSI == jsAt(RSIValues, Len(RSIValues) - 2)
CurRSI == jsAt(RSIValues, Len(RSIValues) - 1)
SignalReturned == ret.op \in {"isBuySignal", "isSellSignal"}

\* C1: with fewer than 15 candles isBuySignal and isSellSignal return
\* undefined, never true or false.
C1_AbsentBelow15Candles ==
  (SignalReturned /\ Len(candles) < 15) => ret.val = Undefined

\* C2: with fewer than two RSI points (15 candles give one) isBuySignal and
\* isSellSignal return undefined, not false.
C2_AbsentBelowTwoRSIPoints ==
  (SignalReturned /\ Len(RSIValues) < 2) => ret.val = Undefined

\* C3: with two RSI points isBuySignal is true iff the previous RSI is <= 35
\* and the current RSI is > 35.
C3_BuyIsCrossUp ==
  (ret.op = "isBuySignal" /\ Len(RSIValues) >= 2)
    => ret.val = Bool(PrevRSI.v <= RSI_OVERSOLD * 100 /\ CurRSI.v > RSI_OVERSOLD * 100)

\* C4: with two RSI points isSellSignal is true iff the previous RSI is >= 75
\* and the current RSI is < 75.
C4_SellIsCrossDown ==
  (ret.op = "isSellSignal" /\ Len(RSIValues) >= 2)
    => ret.val = Bool(PrevRSI.v >= RSI_OVERBOUGHT * 100 /\ CurRSI.v < RSI_OVERBOUGHT * 100)

\* C5: isBuySignal and isSellSignal are never both true of a candle series,
\* and both are false when the RSI sits on the compared threshold at both of
\* the last two points.
C5_SignalsExclusive ==
  /\ ~(isBuySignal(candles) = Bool(TRUE) /\ isSellSignal(candles) = Bool(TRUE))
  /\ (PrevRSI = Num(RSI_OVERSOLD * 100) /\ CurRSI = Num(RSI_OVERSOLD * 100))
       => (isBuySignal(candles) = Bool(FALSE) /\ isSellSignal(candles) = Bool(FALSE))
  /\ (PrevRSI = Num(RSI_OVERBOUGHT * 100) /\ CurRSI = Num(RSI_OVERBOUGHT * 100))
       => (isBuySignal(candles) = Bool(FALSE) /\ isSellSignal(candles) = Bool(FALSE))

\* C5 witness: the RSI is 35.00 at both of the last two points and isBuySignal
\* has returned false.
C5_Witness ==
  /\ PrevRSI = Num(RSI_OVERSOLD * 100)
  /\ CurRSI = Num(RSI_OVERSOLD * 100)
  /\ ret = [op |-> "isBuySignal", val |-> Bool(FALSE)]

ScenarioFed == closeOf(candles) = ScenarioCloses

EntryPoints ==
  {"isBuySignal", "isSellSignal", "getInputsFromIndicators",
   "getInputsFromCandles", "getOutputs"}

\* C8: no entry point changes the candle series or the wallet it is given:
\* across every call of isBuySignal, isSellSignal, getInputsFromIndicators,
\* getInputsFromCandles and getOutputs the candles (length, order, fields) and
\* the wallet are the same after as before.
C8_InputsUnchanged ==
  [][ret'.op \in EntryPoints => (candles' = candles /\ extra' = extra)]_vars

\* C8 witness: getInputsFromIndicators has returned a vector computed from a
\* non-empty series (volume oscillator on, read with candles.slice) and a
\* wallet.
C8_Witness ==
  /\ ret.op = "getInputsFromIndicators"
  /\ ret.val.t = "array"
  /\ "VOL_OSC" \in config.indicator_inputs
  /\ Len(candles) >= WindowOf["VOL_OSC"]
  /\ extra.wallet # Null

\* number of candles an indicator needs for a first value
MinCandles == [k \in ToggleNames |-> IF k = "VOL" THEN 1 ELSE FirstOutputAt[k]]

\* the series is shorter than the minimum window of an enabled indicator
ShortHistory ==
  \E k \in ToggleNames :
    NEURAL_NETWORK_INPUTS(config)[k] /\ Len(candles) < MinCandles[k]

\* the wallet passed in has an entry for the pair
WalletResolves == holdingTrade(pair, extra) # TypeError

\* C9: on a series shorter than an enabled indicator's minimum window (the
\* empty series included) getInputsFromIndicators and getOutputs return
\* without raising, and the vector holds undefined for the missing values.
C9_ShortHistoryNotFatal ==
  (ret.op \in {"getInputsFromIndicators", "getOutputs"}
     /\ ShortHistory /\ WalletResolves)
    => /\ ret.val # TypeError
       /\ ret.op = "getInputsFromIndicators" =>
            \A i \in 1..Len(ret.val.v) :
              (ret.val.v[i].feat \in ToggleNames
                 /\ Len(candles) < MinCandles[ret.val.v[i].feat])
                => ret.val.v[i].val = Undefined

\* position of a toggle in the declaration order
TogglePos(k) == CHOOSE i \in 1..Len(ToggleOrder) : ToggleOrder[i] = k

\* C10: a feature is in the vector of getInputsFromIndicators iff the
\* configuration key of its own name is enabled, and the features keep the
\* order in which the toggles are declared.
C10_TogglesInDeclaredOrder ==
  (ret.op = "getInputsFromIndicators" /\ ret.val.t = "array")
    => LET vec == ret.val.v
           ind == {i \in 1..Len(vec) : vec[i].feat \in ToggleNames}
       IN /\ \A k \in ToggleNames :
               (\E i \in ind : vec[i].feat = k) <=> (k \in config.indicator_inputs)
          /\ \A i, j \in ind :
               i < j => TogglePos(vec[i].feat) < TogglePos(vec[j].feat)

(* ------------------------ claims on the trading loop ------------------- *)

\* C11. In futures mode, when a position is already open and the signal is in
\* its direction (buy while long, sell while short), no entry market order is
\* submitted.
C11_NoSameDirectionEntry ==
  \A o \in ordersSent :
    (o.role = "entry" /\ o.close = "none") =>
      /\ ~(o.snapshot = "long" /\ o.buy = Bool(TRUE))
      /\ ~(o.snapshot = "short" /\ o.sell = Bool(TRUE))

\* C12. The protective orders of a pair are cancelled only by an evaluation
\* that found the pair without a position or has just closed its position:
\* no evaluation that read a long or a short position (positionAmt > 0 or
\* < 0) and did not close it sends a cancel request.
C12_CancelOnlyWithoutPosition ==
  \A c \in cancelsSent :
    PositionRisk(c.snapshot).positionAmt = 0 \/ c.afterClose

\* C13. After the initial load and any sequence of streamed candles,
\* historyCandles[pair] holds at most MAX_CANDLES_HISTORY candles.
C13_HistoryBounded ==
  \A p \in Pairs : Len(historyCandles[p]) <= MAX_CANDLES_HISTORY

\* C14. A candle that is not closed changes neither historyCandles nor
\* openOrders and starts no evaluation; a closed candle appends exactly one
\* candle to the history of its pair and starts exactly one evaluation, on a
\* series whose last element is that candle.
C14_OnlyClosedCandles ==
  [][/\ \A p \in Pairs :
          OpenCandleEvent(p) => UNCHANGED <<historyCandles, openOrders, tasks>>
     /\ \A p \in Pairs :
          FinalCandleEvent(p) =>
            LET history == historyCandles'[p]
                evaluated == tasks'[Len(tasks')].candles
            IN /\ Len(history) = Len(historyCandles[p]) + 1
               /\ SubSeq(history, 1, Len(history) - 1) = historyCandles[p]
               /\ Len(tasks') = Len(tasks) + 1
               /\ tasks'[Len(tasks')].pair = p
               /\ Len(evaluated) > 0
               /\ evaluated[Len(evaluated)] = history[Len(history)]]_vars

\* C15. An evaluation of tradeWithSpot submits at most one market order, at
\* its one decision point: a SELL only if the account has a trade on the pair
\* and the sell signal is true, a BUY only if it has none, the free balance
\* is at least MIN_FREE_BALANCE_FOR_SPOT_TRADING and the buy signal is true.
C15_SpotAtMostOneOrder ==
  LET market == {o \in ordersSent : o.role = "market"}
  IN /\ Cardinality(market) <= 1
     /\ \A o \in market :
          /\ o.from = "account"
          /\ \/ /\ o.side = "SELL"
                /\ o.trades > 0
                /\ o.sell = Bool(TRUE)
             \/ /\ o.side = "BUY"
                /\ o.trades = 0
                /\ o.availableBalance >= MIN_FREE_BALANCE_FOR_SPOT_TRADING
                /\ o.buy = Bool(TRUE)

C15_Witness ==
  /\ BINANCE_MODE = "spot"
  /\ \E o \in ordersSent : o.role = "market" /\ o.side = "BUY"

\* C16. Take-profit, stop-loss and exit orders are submitted only by an
\* evaluation whose entry market order has succeeded; none is submitted when
\* the entry order fails.
C16_ProtectiveAfterEntry ==
  \A o \in ordersSent : o.role \in Roles => o.entry = "ok"

C16_Witness ==
  /\ \E o \in ordersSent : o.role = "TP" /\ o.entry = "ok"
  /\ \E o \in ordersSent : o.role = "SL" /\ o.entry = "ok"

\* C17. An evaluation that submitted a closing order submits an entry order
\* (lookForPosition) only after the closing order has succeeded; when the
\* closing order fails no entry order follows.
C17_CloseBeforeReopen ==
  \A o \in ordersSent : o.role = "entry" => o.close \in {"none", "ok"}

C17_Witness ==
  \E o \in ordersSent : o.role = "entry" /\ o.close = "ok"

\* C18. Under every interleaving, the id of each protective futures order
\* whose placement has been answered is either still in openOrders[pair], with
\* no cancel request sent, or no longer there, with exactly one cancel request
\* sent; openOrders holds no other id and none twice; and a step that empties
\* the list of one pair leaves the lists of the other pairs unchanged.
Tracked(r) == \E i \in 1..Len(openOrders[r.pair]) : openOrders[r.pair][i] = r.id

TrackedOK ==
  /\ \A r \in placed : IF Tracked(r) THEN r.cancels = 0 ELSE r.cancels = 1
  /\ \A p \in Pairs :
       /\ \A i \in 1..Len(openOrders[p]) :
            \E r \in placed : r.pair = p /\ r.id = openOrders[p][i]
       /\ \A i, j \in 1..Len(openOrders[p]) :
            openOrders[p][i] = openOrders[p][j] => i = j

C18_OrdersTracked ==
  [][/\ TrackedOK'
     /\ \A p \in Pairs :
          Len(openOrders'[p]) < Len(openOrders[p]) =>
            \A q \in Pairs \ {p} : openOrders'[q] = openOrders[q]]_vars

C18_Witness ==
  /\ \E r \in placed : r.cancels = 1
  /\ \E r \in placed : r.cancels = 0 /\ Tracked(r)

\* C19. A step taken for one pair (its load, a candle event, a step of one of
\* its evaluations, closeOpenOrders included) never changes historyCandles or
\* openOrders of another pair.
Acts(p) ==
  \/ loaded'[p] # loaded[p]
  \/ Len(tasks') > Len(tasks) /\ tasks'[Len(tasks')].pair = p
  \/ \E t \in 1..Len(tasks) : tasks'[t] # tasks[t] /\ tasks[t].pair = p

C19_PairsIsolated ==
  [][/\ Cardinality({p \in Pairs : Acts(p)}) <= 1
     /\ \A q \in Pairs :
          (historyCandles'[q] # historyCandles[q] \/ openOrders'[q] # openOrders[q])
            => Acts(q)]_vars

C19_Witness ==
  /\ openOrders["ETHUSDT"] # <<>>
  /\ historyCandles["ETHUSDT"] # <<>>
  /\ \E o \in ordersSent : o.pair = "BTCUSDT" /\ o.close = "ok"

====
